---- MODULE Spec2Model ----
(***************************************************************************)
(* Model of the virtio-rdma device: the device state machine               *)
(* (devices/virtio/rdma/device.rs), its event dispatcher                   *)
(* (devices/virtio/rdma/event_handler.rs) and the drain pass over the      *)
(* single request queue.                                                   *)
(*                                                                         *)
(* The reactor is single threaded and the device sits behind one mutex, so *)
(* a callback runs to completion before anything else touches the device:  *)
(* every action other than the steps of the drain pass itself requires     *)
(* pc = "idle".  The drain pass (handle_queue) is cut into its steps (pop, *)
(* process_chain, add_used, advance/kick) so that the order of its effects *)
(* is visible; pc forces the steps to follow each other as in the code.    *)
(*                                                                         *)
(* The Queue, EventFd, EventOps and guest memory are collaborators whose   *)
(* code is not part of the modelled sources.  They are modelled by the     *)
(* operators Queue*, EventFd*, Ops*, and by the req_mapped / resp_mapped   *)
(* attributes of a chain.  The failures of the Queue, of guest memory, of  *)
(* the write to the activation event and of the interrupt are inputs of    *)
(* the actions; a read of an EventFd fails when its counter is 0; the      *)
(* calls of EventOps, whose errors the code only logs, take effect.        *)
(*                                                                         *)
(* The control plane (vmm_config/rdma.rs, api_server/request/rdma.rs) is   *)
(* modelled next to the device: the registry of devices, the parser of the *)
(* PUT request and the delivery of the parsed action to the registry.      *)
(*                                                                         *)
(* Specifications: Spec (one device, any caller), SpecChain (the drain     *)
(* pass over every chain of ChainSpace), SpecRegistry (the control plane), *)
(* SpecLive (the device under a fair reactor).                             *)
(***************************************************************************)
EXTENDS Integers, Sequences, FiniteSets, TLC

\* ---------------------------------------------------------------- bounds
\* chains the guest may have pending on the avail ring
MaxQueue == 2
\* chains the guest submits over a run
MaxChains == 2
\* calls of activate over a run
MaxActivate == 2
\* value at which an event counter stops being incremented by the model
MaxEventCount == 1
\* devices the registry holds
MaxDevices == 2
\* devices created for the registry over a run
MaxCreated == 3
\* calls of parse_put_rdma over a run
MaxRequests == 2

\* ------------------------------------------------------ program constants
RDMA_NUM_QUEUES == 1
RDMA_OPCODE_CREATE_QP == 1
RDMA_STATUS_OK == 0
RDMA_STATUS_ERR == 1
PROCESS_ACTIVATE == 0
PROCESS_RDMA_QUEUE == 1
\* size_of::<RdmaRequest>() and size_of::<RdmaResponse>()
SizeOfRdmaRequest == 8
SizeOfRdmaResponse == 4

\* ------------------------------------------------------------ wire format
\* u32::from_le applied to the four bytes read_obj found in guest memory
FromLe(b) == b[1] + 256 * b[2] + 65536 * b[3] + 16777216 * b[4]

\* the four bytes write_obj stores for a u32 passed through to_le
ToLe(v) == << v % 256, (v \div 256) % 256, (v \div 65536) % 256, (v \div 16777216) % 256 >>

\* the poison the test seeds the response buffer with (0xdead_beef)
Poison == << 239, 190, 173, 222 >>

\* request records found in guest memory: opcode bytes and qp_id bytes
OpcodeBytes == { <<1,0,0,0>>, <<0,0,0,0>>, <<2,0,0,0>>, <<0,0,0,1>>, <<1,1,0,0>> }

QpIdBytes == { <<0,0,0,0>>, <<7,0,0,0>> }

\* ----------------------------------------------------------------- chains
\* A descriptor chain as the device sees it when it pops it.  head_* is the
\* first descriptor, resp_* the second (meaningful when has_next).
\* req_mapped / resp_mapped: whether read_obj(head.addr) / write_obj(.., resp_desc.addr)
\* succeed against guest memory.
ChainSpace ==
  [ head_write_only : BOOLEAN, head_len : {7, 8}, has_next : BOOLEAN,
    resp_write_only : BOOLEAN, resp_len : {3, 4},
    req_mapped : BOOLEAN, resp_mapped : BOOLEAN,
    opcode : OpcodeBytes, qp_id : QpIdBytes ]

WellFormedChain ==
  [ head_write_only |-> FALSE, head_len |-> 8, has_next |-> TRUE,
    resp_write_only |-> TRUE, resp_len |-> 4,
    req_mapped |-> TRUE, resp_mapped |-> TRUE,
    opcode |-> <<1,0,0,0>>, qp_id |-> <<7,0,0,0>> ]

\* the chains the guest places on the queue in the device run: the chain of
\* the unit test, the same with another opcode, one chain per structural
\* defect, and chains whose buffers are not mapped
Chains ==
  { WellFormedChain,
    [WellFormedChain EXCEPT !.opcode = <<2,0,0,0>>],
    [WellFormedChain EXCEPT !.head_write_only = TRUE],
    [WellFormedChain EXCEPT !.head_len = 7],
    [WellFormedChain EXCEPT !.has_next = FALSE],
    [WellFormedChain EXCEPT !.resp_write_only = FALSE],
    [WellFormedChain EXCEPT !.resp_len = 3],
    [WellFormedChain EXCEPT !.req_mapped = FALSE],
    [WellFormedChain EXCEPT !.resp_mapped = FALSE] }

\* head when no chain has been popped in the pass (id 0 is no chain's id)
NoChain == [ id |-> 0, c |-> WellFormedChain ]

NoResult == [ tag |-> "None", len |-> 0, read |-> FALSE, wrote |-> FALSE, opcode |-> 0, bytes |-> Poison ]

VARIABLES
  device_state,      \* "Inactive" | "Activated"
  num_queues,        \* queues.len()
  acked_features,
  ever_acked,        \* the feature bits set_acked_features has been given so far
  activate_event,    \* counter of the activation EventFd
  queue_event,       \* counter of queue_events[0]
  registered,        \* tags registered with the reactor (EventOps)
  subscribed,        \* MutEventSubscriber::init has run
  avail,             \* ids of the chains available and not yet popped
  submitted,         \* chains the guest has submitted so far
  used,              \* entries add_used has written: [id, len]
  used_idx,          \* the used-ring index the guest sees
  num_added,         \* entries added since the last prepare_kick
  pc,                \* position inside the drain pass, "idle" between callbacks
  head,              \* the chain popped last in the running pass
  result,            \* what process_chain did with head
  used_len,          \* the length handle_queue passes to add_used for head
  pass,              \* bookkeeping of the current / last drain pass
  activate_calls, activate_oks, activate_signals, activate_result,
  interrupt_signalled,
  panicked,
  mark_failed,       \* ids of the popped chains whose add_used failed
  warned,            \* the warning of the last call of process, "none" if it routed the event
  devices,           \* RdmaDeviceBuilder::devices, the registry
  created,           \* devices VirtioRdma::new has created for the registry so far
  build_result,      \* the last call of build / insert / add_device and what it returned
  request,           \* the last call of parse_put_rdma and what it returned
  rdma_count,        \* METRICS.put_api_requests.rdma_count
  rdma_fails         \* METRICS.put_api_requests.rdma_fails

vars == << device_state, num_queues, acked_features, ever_acked, activate_event, queue_event,
           registered, subscribed, avail, submitted, used, used_idx, num_added,
           pc, head, result, used_len, pass, activate_calls, activate_oks,
           activate_signals, activate_result, interrupt_signalled, panicked,
           mark_failed, warned,
           devices, created, build_result, request, rdma_count, rdma_fails >>

devVars == << device_state, num_queues, acked_features, ever_acked, activate_event,
              activate_calls, activate_oks, activate_signals, activate_result >>

regVars == << registered, subscribed >>

queueVars == << avail, submitted, used, used_idx, num_added, mark_failed >>

passVars == << pc, head, result, used_len, pass, interrupt_signalled >>

\* the control plane: the registry, the request parser and its metrics
ctlVars == << devices, created, build_result, request, rdma_count, rdma_fails >>

\* one device and its dispatcher: everything but the control plane
rdmaVars == << devVars, regVars, queueVars, passVars, queue_event, panicked, warned >>

NoPass == [ state |-> "none", n |-> 0, idx0 |-> 0, unpublished0 |-> 0, popped |-> 0,
            marked |-> 0, advances |-> 0, add_failed |-> FALSE ]

\* ---------------------------------------------------------- control plane
\* device identifiers: the ones of the tests and one checked_id rejects
Ids == { "rdma0", "bar", "rdma-0" }

\* RdmaDeviceConfig: a record with the one field id
ConfigSpace == [ id : Ids ]

NoConfig == [ id |-> "(none)" ]

\* a VirtioRdma held by the registry: its id, which allocation it is (the
\* identity of the Arc), and how it came to exist (origin, config: the
\* configuration build created it from, NoConfig for a device created
\* elsewhere and handed to add_device)
NoDevice == [ id |-> "(none)", serial |-> 0, origin |-> "none", config |-> NoConfig ]

NoBuildResult == [ op |-> "none", config |-> NoConfig, tag |-> "None", handle |-> NoDevice ]

\* id_from_path: Option<&str>
NoPath == [ present |-> FALSE, id |-> "" ]

Paths == { NoPath } \cup { [ present |-> TRUE, id |-> i ] : i \in Ids \cup { "" } }

\* request bodies: whether the bytes are JSON at all, the fields of the
\* object, whether the value of "id" is a string, and that value
FieldNames == { "id", "foo" }

Bodies ==
  { [ json |-> FALSE, fields |-> {}, id_is_string |-> FALSE, id |-> "" ],
    [ json |-> TRUE, fields |-> { "id" }, id_is_string |-> TRUE, id |-> "rdma0" ],
    [ json |-> TRUE, fields |-> { "id" }, id_is_string |-> TRUE, id |-> "bar" ],
    [ json |-> TRUE, fields |-> { "id" }, id_is_string |-> TRUE, id |-> "rdma-0" ],
    [ json |-> TRUE, fields |-> { "id" }, id_is_string |-> FALSE, id |-> "" ],
    [ json |-> TRUE, fields |-> { "foo" }, id_is_string |-> FALSE, id |-> "" ],
    [ json |-> TRUE, fields |-> { "id", "foo" }, id_is_string |-> TRUE, id |-> "rdma0" ],
    [ json |-> TRUE, fields |-> {}, id_is_string |-> FALSE, id |-> "" ] }

NoAction == [ kind |-> "none", config |-> NoConfig ]

NoRequest == [ path |-> NoPath, body |-> CHOOSE b \in Bodies : ~b.json, tag |-> "None", action |-> NoAction ]

\* RdmaDeviceBuilder::new, no request parsed yet, metrics at zero
InitCtl ==
  /\ devices = << >>
  /\ created = 0
  /\ build_result = NoBuildResult
  /\ request = NoRequest
  /\ rdma_count = 0
  /\ rdma_fails = 0

\* VirtioRdma::new
Init ==
  /\ device_state = "Inactive"
  /\ num_queues = RDMA_NUM_QUEUES
  /\ acked_features = 0
  /\ ever_acked = {}
  /\ activate_event = 0
  /\ queue_event = 0
  /\ registered = {}
  /\ subscribed = FALSE
  /\ avail = << >>
  /\ submitted = 0
  /\ used = << >>
  /\ used_idx = 0
  /\ num_added = 0
  /\ pc = "idle"
  /\ head = NoChain
  /\ result = NoResult
  /\ used_len = 0
  /\ pass = NoPass
  /\ activate_calls = 0
  /\ activate_oks = 0
  /\ activate_signals = 0
  /\ activate_result = "None"
  /\ interrupt_signalled = FALSE
  /\ panicked = FALSE
  /\ mark_failed = {}
  /\ warned = "none"
  /\ InitCtl

is_activated == device_state = "Activated"

\* ------------------------------------------------- collaborators (capabilities)
\* EventFd::read on a non-blocking eventfd: fails when the counter is 0,
\* otherwise returns the counter and resets it
EventFdReadable(counter) == counter > 0

\* EventFd::write(1): adds 1 to the counter
EventFdWrite(counter) == counter + 1

\* EventOps::add / EventOps::remove of a tagged source
OpsAdd(regs, tag) == regs \cup {tag}

OpsRemove(regs, tag) == regs \ {tag}

\* Queue::pop on a valid avail ring: the chain submitted first, if any
QueuePopId(q) == Head(q)

QueuePopRest(q) == Tail(q)

\* Queue::add_used: one more element on the used ring
QueueAddUsed(u, elem) == Append(u, elem)

\* Queue::advance_used_ring_idx: publishes next_used as the used-ring index
QueueAdvanceUsedRingIdx(u) == Len(u)

\* Queue::prepare_kick: a notification is warranted when entries were added
QueuePrepareKick(added) == added > 0

\* --------------------------------------------------------- process_chain
\* variant of the dispatch that acknowledges every opcode
MutDispatchAlwaysOk(opcode) == RDMA_STATUS_OK

\* the opcode dispatch of process_chain

DispatchStatus(opcode) ==
  IF opcode = RDMA_OPCODE_CREATE_QP THEN RDMA_STATUS_OK ELSE RDMA_STATUS_ERR

ChainErr(tag, didRead, opcode) ==
  [ tag |-> tag, len |-> 0, read |-> didRead, wrote |-> FALSE, opcode |-> opcode, bytes |-> Poison ]

\* variant of process_chain that does not look at the result of write_obj
MutProcessChainIgnoresWriteError(c) ==
  IF c.head_write_only THEN ChainErr("WriteOnlyDescriptor", FALSE, 0)
  ELSE IF c.head_len < SizeOfRdmaRequest THEN ChainErr("DescriptorTooShort", FALSE, 0)
  ELSE IF ~c.req_mapped THEN ChainErr("GuestMemory", TRUE, 0)
  ELSE LET opcode == FromLe(c.opcode)
       IN IF ~c.has_next THEN ChainErr("DescriptorChainTooShort", TRUE, opcode)
          ELSE IF ~c.resp_write_only THEN ChainErr("ReadOnlyDescriptor", TRUE, opcode)
          ELSE IF c.resp_len < SizeOfRdmaResponse THEN ChainErr("DescriptorTooShort", TRUE, opcode)
          ELSE [ tag |-> "Ok", len |-> SizeOfRdmaResponse, read |-> TRUE, wrote |-> c.resp_mapped,
                 opcode |-> opcode, bytes |-> IF c.resp_mapped THEN ToLe(DispatchStatus(opcode)) ELSE Poison ]

\* process_chain, in the order of the code: two checks on the first
\* descriptor, the read of the request, three checks on the second
\* descriptor, the dispatch, the write of the response
ProcessChain(c) ==
  IF c.head_write_only THEN ChainErr("WriteOnlyDescriptor", FALSE, 0)
  ELSE IF c.head_len < SizeOfRdmaRequest THEN ChainErr("DescriptorTooShort", FALSE, 0)
  ELSE IF ~c.req_mapped THEN ChainErr("GuestMemory", TRUE, 0)
  ELSE LET opcode == FromLe(c.opcode)
           qp_id == FromLe(c.qp_id)
       IN IF ~c.has_next THEN ChainErr("DescriptorChainTooShort", TRUE, opcode)
          ELSE IF ~c.resp_write_only THEN ChainErr("ReadOnlyDescriptor", TRUE, opcode)
          ELSE IF c.resp_len < SizeOfRdmaResponse THEN ChainErr("DescriptorTooShort", TRUE, opcode)
          ELSE IF ~c.resp_mapped THEN ChainErr("GuestMemory", TRUE, opcode)
          ELSE [ tag |-> "Ok", len |-> SizeOfRdmaResponse, read |-> TRUE, wrote |-> TRUE,
                 opcode |-> opcode, bytes |-> ToLe(DispatchStatus(opcode)) ]

\* variant of the match that reports a full response also on an error
MutUsedLenIgnoresError(r) == SizeOfRdmaResponse

\* the match on process_chain's result in handle_queue

UsedLenOf(r) == IF r.tag = "Ok" THEN r.len ELSE 0

\* variant that marks a fixed descriptor index instead of head.index
MutUsedElemFixedIndex(h, len) == [ id |-> 1, len |-> len ]

\* the element handle_queue hands to add_used: (head.index, used_len)

UsedElem(h, len) == [ id |-> h.id, len |-> len ]

\* the feature bits of a bitmask (the masks of FeatureValues have one bit)
FeatureBits == { 0 }

Bits(v) == { b \in FeatureBits : (v \div (2 ^ b)) % 2 = 1 }

\* ------------------------------------------------------------- activation
\* variant of activate that records the Activated state before its checks
MutActivateStateFirst(mem_ok, evt_ok) ==
  /\ pc = "idle" /\ ~panicked
  /\ activate_calls < MaxActivate
  /\ activate_calls' = activate_calls + 1
  /\ device_state' = "Activated"
  /\ IF num_queues # RDMA_NUM_QUEUES
       THEN /\ activate_result' = "QueueMismatch"
            /\ UNCHANGED << activate_event, activate_oks, activate_signals >>
       ELSE /\ activate_result' = "Ok"
            /\ activate_event' = EventFdWrite(activate_event)
            /\ activate_signals' = activate_signals + 1
            /\ activate_oks' = activate_oks + 1
  /\ UNCHANGED << num_queues, acked_features, ever_acked, queue_event, panicked, warned >>
  /\ UNCHANGED regVars /\ UNCHANGED queueVars /\ UNCHANGED passVars
  /\ UNCHANGED ctlVars

\* variant of activate that falls back to Inactive on every error
MutActivateResetOnError(mem_ok, evt_ok) ==
  /\ pc = "idle" /\ ~panicked
  /\ activate_calls < MaxActivate
  /\ activate_calls' = activate_calls + 1
  /\ IF num_queues # RDMA_NUM_QUEUES \/ ~mem_ok \/ ~evt_ok
       THEN /\ activate_result' = "EventFd"
            /\ device_state' = "Inactive"
            /\ UNCHANGED << activate_event, activate_oks, activate_signals >>
       ELSE /\ activate_result' = "Ok"
            /\ activate_event' = EventFdWrite(activate_event)
            /\ activate_signals' = activate_signals + 1
            /\ device_state' = "Activated"
            /\ activate_oks' = activate_oks + 1
  /\ UNCHANGED << num_queues, acked_features, ever_acked, queue_event, panicked, warned >>
  /\ UNCHANGED regVars /\ UNCHANGED queueVars /\ UNCHANGED passVars
  /\ UNCHANGED ctlVars

\* variant of activate that writes the activation event before its checks
MutActivateSignalsEarly(mem_ok, evt_ok) ==
  /\ pc = "idle" /\ ~panicked
  /\ activate_calls < MaxActivate
  /\ activate_calls' = activate_calls + 1
  /\ activate_event' = EventFdWrite(activate_event)
  /\ activate_signals' = activate_signals + 1
  /\ IF num_queues # RDMA_NUM_QUEUES
       THEN /\ activate_result' = "QueueMismatch"
            /\ UNCHANGED << device_state, activate_oks >>
       ELSE IF ~mem_ok
       THEN /\ activate_result' = "QueueMemoryError"
            /\ UNCHANGED << device_state, activate_oks >>
       ELSE /\ activate_result' = "Ok"
            /\ device_state' = "Activated"
            /\ activate_oks' = activate_oks + 1
  /\ UNCHANGED << num_queues, acked_features, ever_acked, queue_event, panicked, warned >>
  /\ UNCHANGED regVars /\ UNCHANGED queueVars /\ UNCHANGED passVars
  /\ UNCHANGED ctlVars

\* VirtioDevice::activate.  mem_ok: every q.initialize(&mem) succeeds;
\* evt_ok: activate_event.write(1) succeeds.
Activate(mem_ok, evt_ok) ==
  /\ pc = "idle" /\ ~panicked
  /\ activate_calls < MaxActivate
  /\ activate_calls' = activate_calls + 1
  /\ IF num_queues # RDMA_NUM_QUEUES
       THEN /\ activate_result' = "QueueMismatch"
            /\ UNCHANGED << device_state, activate_event, activate_oks, activate_signals >>
       ELSE IF ~mem_ok
       THEN /\ activate_result' = "QueueMemoryError"
            /\ UNCHANGED << device_state, activate_event, activate_oks, activate_signals >>
       ELSE IF ~evt_ok
       THEN /\ activate_result' = "EventFd"
            /\ UNCHANGED << device_state, activate_event, activate_oks, activate_signals >>
       ELSE /\ activate_result' = "Ok"
            /\ activate_event' = EventFdWrite(activate_event)
            /\ activate_signals' = activate_signals + 1
            /\ device_state' = "Activated"
            /\ activate_oks' = activate_oks + 1
  /\ UNCHANGED << num_queues, acked_features, ever_acked, queue_event, panicked, warned >>
  /\ UNCHANGED regVars /\ UNCHANGED queueVars /\ UNCHANGED passVars
  /\ UNCHANGED ctlVars

\* VirtioTestDevice::set_queues, which the test helper calls on a device it
\* has not activated yet
SetQueues(n) ==
  /\ pc = "idle" /\ ~panicked
  /\ ~is_activated
  /\ num_queues' = n
  /\ UNCHANGED << device_state, acked_features, ever_acked, activate_event, queue_event,
                  activate_calls, activate_oks, activate_signals, activate_result, panicked, warned >>
  /\ UNCHANGED regVars /\ UNCHANGED queueVars /\ UNCHANGED passVars
  /\ UNCHANGED ctlVars

\* variant of the setter that keeps only the bits of avail_features, which
\* VirtioRdma::new leaves at 0
MutSetAckedFeaturesMasksWithAvail(v) ==
  /\ pc = "idle" /\ ~panicked
  /\ acked_features' = 0
  /\ ever_acked' = ever_acked \cup Bits(v)
  /\ UNCHANGED << device_state, num_queues, activate_event, queue_event,
                  activate_calls, activate_oks, activate_signals, activate_result, panicked, warned >>
  /\ UNCHANGED regVars /\ UNCHANGED queueVars /\ UNCHANGED passVars
  /\ UNCHANGED ctlVars

\* VirtioDevice::set_acked_features
SetAckedFeatures(v) ==
  /\ pc = "idle" /\ ~panicked
  /\ acked_features' = v
  /\ ever_acked' = ever_acked \cup Bits(v)
  /\ UNCHANGED << device_state, num_queues, activate_event, queue_event,
                  activate_calls, activate_oks, activate_signals, activate_result, panicked, warned >>
  /\ UNCHANGED regVars /\ UNCHANGED queueVars /\ UNCHANGED passVars
  /\ UNCHANGED ctlVars

\* ------------------------------------------------------------------ guest
\* the guest makes one more chain available
GuestSubmit ==
  /\ pc = "idle" /\ ~panicked
  /\ submitted < MaxChains
  /\ Len(avail) < MaxQueue
  /\ submitted' = submitted + 1
  /\ avail' = Append(avail, submitted + 1)
  /\ UNCHANGED << used, used_idx, num_added, mark_failed, queue_event, panicked, warned >>
  /\ UNCHANGED devVars /\ UNCHANGED regVars /\ UNCHANGED passVars
  /\ UNCHANGED ctlVars

\* the guest notifies the queue: a write to queue_events[0]
GuestNotify ==
  /\ pc = "idle" /\ ~panicked
  /\ queue_event < MaxEventCount
  /\ queue_event' = EventFdWrite(queue_event)
  /\ UNCHANGED << device_state, num_queues, acked_features, ever_acked, activate_event,
                  activate_calls, activate_oks, activate_signals, activate_result, panicked, warned >>
  /\ UNCHANGED regVars /\ UNCHANGED queueVars /\ UNCHANGED passVars
  /\ UNCHANGED ctlVars

\* ------------------------------------------------------------- dispatcher
\* MutEventSubscriber::init
SubscriberInit ==
  /\ pc = "idle" /\ ~panicked
  /\ ~subscribed
  /\ subscribed' = TRUE
  /\ registered' = IF is_activated
                     THEN OpsAdd(registered, PROCESS_RDMA_QUEUE)
                     ELSE OpsAdd(registered, PROCESS_ACTIVATE)
  /\ UNCHANGED << queue_event, panicked, warned >>
  /\ UNCHANGED devVars /\ UNCHANGED queueVars /\ UNCHANGED passVars
  /\ UNCHANGED ctlVars

\* variant of process_activate_event that leaves the activation event
\* registered
MutProcessActivateKeepsSource ==
  /\ activate_event' = 0
  /\ registered' = OpsAdd(registered, PROCESS_RDMA_QUEUE)
  /\ UNCHANGED << device_state, num_queues, acked_features, ever_acked, queue_event, subscribed,
                  activate_calls, activate_oks, activate_signals, activate_result, panicked >>
  /\ warned' = "none"
  /\ UNCHANGED queueVars /\ UNCHANGED passVars
  /\ UNCHANGED ctlVars

\* variant of process_activate_event that does not register the queue event
MutProcessActivateSkipsRuntimeEvents ==
  /\ activate_event' = 0
  /\ registered' = OpsRemove(registered, PROCESS_ACTIVATE)
  /\ UNCHANGED << device_state, num_queues, acked_features, ever_acked, queue_event, subscribed,
                  activate_calls, activate_oks, activate_signals, activate_result, panicked >>
  /\ warned' = "none"
  /\ UNCHANGED queueVars /\ UNCHANGED passVars
  /\ UNCHANGED ctlVars

\* process_activate_event: read the activation event, register the queue
\* event, unregister the activation event; each failure is only logged
ProcessActivateEvent ==
  /\ activate_event' = 0
  /\ registered' = OpsRemove(OpsAdd(registered, PROCESS_RDMA_QUEUE), PROCESS_ACTIVATE)
  /\ UNCHANGED << device_state, num_queues, acked_features, ever_acked, queue_event, subscribed,
                  activate_calls, activate_oks, activate_signals, activate_result, panicked >>
  /\ warned' = "none"
  /\ UNCHANGED queueVars /\ UNCHANGED passVars
  /\ UNCHANGED ctlVars

\* the head of handle_queue: active_state().expect(..) panics on an
\* Inactive device; otherwise the drain loop starts
HandleQueueBegin ==
  IF ~is_activated
    THEN /\ panicked' = TRUE
         /\ UNCHANGED passVars
    ELSE /\ pc' = "pop"
         /\ head' = NoChain
         /\ result' = NoResult
         /\ used_len' = 0
         /\ pass' = [ state |-> "running", n |-> Len(avail), idx0 |-> used_idx,
                      unpublished0 |-> Len(used) - used_idx, popped |-> 0,
                      marked |-> 0, advances |-> 0, add_failed |-> FALSE ]
         /\ UNCHANGED << interrupt_signalled, panicked >>

\* process_queue_event: consume the notification, then run handle_queue
ProcessQueueEvent ==
  /\ IF ~EventFdReadable(queue_event)
       THEN /\ UNCHANGED << queue_event, panicked >>
            /\ UNCHANGED passVars
       ELSE /\ queue_event' = 0
            /\ HandleQueueBegin
  /\ warned' = "none"
  /\ UNCHANGED devVars /\ UNCHANGED regVars /\ UNCHANGED queueVars
  /\ UNCHANGED ctlVars

\* process returns after warn!(msg): the event is dropped
DropEvent(msg) ==
  /\ warned' = msg
  /\ UNCHANGED << queue_event, panicked >>
  /\ UNCHANGED devVars /\ UNCHANGED regVars /\ UNCHANGED queueVars /\ UNCHANGED passVars
  /\ UNCHANGED ctlVars

\* variant of process without the is_activated() check
MutProcessNoActivatedCheck(event_in, source) ==
  /\ pc = "idle" /\ ~panicked
  /\ IF ~event_in THEN DropEvent("unknown_event_set")
     ELSE IF source = PROCESS_ACTIVATE THEN ProcessActivateEvent
     ELSE IF source = PROCESS_RDMA_QUEUE THEN ProcessQueueEvent
     ELSE DropEvent("unknown_source")

\* variant of process without the check of the event set
MutProcessIgnoresEventSet(event_in, source) ==
  /\ pc = "idle" /\ ~panicked
  /\ IF ~is_activated THEN DropEvent("not_activated")
     ELSE IF source = PROCESS_ACTIVATE THEN ProcessActivateEvent
     ELSE IF source = PROCESS_RDMA_QUEUE THEN ProcessQueueEvent
     ELSE DropEvent("unknown_source")

\* MutEventSubscriber::process for an event with (event_in: the set holds
\* EventSet::IN, source: the tag)
Process(event_in, source) ==
  /\ pc = "idle" /\ ~panicked
  /\ IF ~event_in THEN DropEvent("unknown_event_set")
     ELSE IF ~is_activated THEN DropEvent("not_activated")
     ELSE IF source = PROCESS_ACTIVATE THEN ProcessActivateEvent
     ELSE IF source = PROCESS_RDMA_QUEUE THEN ProcessQueueEvent
     ELSE DropEvent("unknown_source")

\* ------------------------------------------------------------- drain pass
\* the loop head of handle_queue: self.queues[0].pop()?
\* pop_ok = FALSE: the avail index the guest wrote is invalid; handle_queue
\* returns the error, which process_queue_event logs
\* The content of a chain is drawn when it is popped: the device first
\* looks at the descriptors then, and the guest owns them until then.
Pop(pop_ok) ==
  /\ pc = "pop"
  /\ IF ~pop_ok
       THEN /\ pc' = "idle"
            /\ pass' = [pass EXCEPT !.state = "pop_error"]
            /\ head' = NoChain
            /\ result' = NoResult
            /\ used_len' = 0
            /\ UNCHANGED << avail >>
       ELSE IF avail = << >>
       THEN /\ pc' = "advance"
            /\ UNCHANGED << avail, head, result, used_len, pass >>
       ELSE /\ \E c \in Chains : head' = [ id |-> QueuePopId(avail), c |-> c ]
            /\ avail' = QueuePopRest(avail)
            /\ pc' = "process"
            /\ pass' = [pass EXCEPT !.popped = @ + 1]
            /\ result' = NoResult
            /\ used_len' = 0
  /\ UNCHANGED << submitted, used, used_idx, num_added, mark_failed, queue_event,
                  interrupt_signalled, panicked, warned >>
  /\ UNCHANGED devVars /\ UNCHANGED regVars
  /\ UNCHANGED ctlVars

\* the loop body up to the match: process_chain on the popped head
ProcessChainStep ==
  /\ pc = "process"
  /\ result' = ProcessChain(head.c)
  /\ used_len' = UsedLenOf(result')
  /\ pc' = "add_used"
  /\ UNCHANGED << head, pass, queue_event, interrupt_signalled, panicked, warned >>
  /\ UNCHANGED devVars /\ UNCHANGED regVars /\ UNCHANGED queueVars
  /\ UNCHANGED ctlVars

\* variant of the loop end that advances the used-ring index per chain
MutAddUsedAdvancesIdx(add_ok) ==
  /\ pc = "add_used"
  /\ used' = QueueAddUsed(used, UsedElem(head, used_len))
  /\ used_idx' = QueueAdvanceUsedRingIdx(used')
  /\ num_added' = num_added + 1
  /\ pc' = "pop"
  /\ pass' = [pass EXCEPT !.marked = @ + 1]
  /\ UNCHANGED << avail, submitted, mark_failed, head, result, used_len, queue_event,
                  interrupt_signalled, panicked, warned >>
  /\ UNCHANGED devVars /\ UNCHANGED regVars
  /\ UNCHANGED ctlVars

\* variant of the loop end that does not mark a chain process_chain rejected
MutAddUsedSkipsFailedChain(add_ok) ==
  /\ pc = "add_used"
  /\ IF result.tag # "Ok"
       THEN /\ pc' = "pop"
            /\ UNCHANGED << used, num_added, pass, mark_failed >>
       ELSE IF add_ok
       THEN /\ used' = QueueAddUsed(used, UsedElem(head, used_len))
            /\ num_added' = num_added + 1
            /\ pc' = "pop"
            /\ pass' = [pass EXCEPT !.marked = @ + 1]
            /\ UNCHANGED << mark_failed >>
       ELSE /\ pc' = "advance"
            /\ pass' = [pass EXCEPT !.add_failed = TRUE]
            /\ mark_failed' = mark_failed \cup { head.id }
            /\ UNCHANGED << used, num_added >>
  /\ UNCHANGED << avail, submitted, used_idx, head, result, used_len, queue_event,
                  interrupt_signalled, panicked, warned >>
  /\ UNCHANGED devVars /\ UNCHANGED regVars
  /\ UNCHANGED ctlVars

\* variant of the loop end whose break also discards the chains still
\* available
MutAddUsedFailureDropsQueue(add_ok) ==
  /\ pc = "add_used"
  /\ IF add_ok
       THEN /\ used' = QueueAddUsed(used, UsedElem(head, used_len))
            /\ num_added' = num_added + 1
            /\ pc' = "pop"
            /\ pass' = [pass EXCEPT !.marked = @ + 1]
            /\ UNCHANGED << mark_failed, avail >>
       ELSE /\ pc' = "advance"
            /\ pass' = [pass EXCEPT !.add_failed = TRUE]
            /\ mark_failed' = mark_failed \cup { head.id }
            /\ avail' = << >>
            /\ UNCHANGED << used, num_added >>
  /\ UNCHANGED << submitted, used_idx, head, result, used_len, queue_event,
                  interrupt_signalled, panicked, warned >>
  /\ UNCHANGED devVars /\ UNCHANGED regVars
  /\ UNCHANGED ctlVars

\* the end of the loop body: add_used(head.index, used_len), break on error
\* (add_ok: add_used succeeds)
AddUsed(add_ok) ==
  /\ pc = "add_used"
  /\ IF add_ok
       THEN /\ used' = QueueAddUsed(used, UsedElem(head, used_len))
            /\ num_added' = num_added + 1
            /\ pc' = "pop"
            /\ pass' = [pass EXCEPT !.marked = @ + 1]
            /\ UNCHANGED << mark_failed >>
       ELSE /\ pc' = "advance"
            /\ pass' = [pass EXCEPT !.add_failed = TRUE]
            /\ mark_failed' = mark_failed \cup { head.id }
            /\ UNCHANGED << used, num_added >>
  /\ UNCHANGED << avail, submitted, used_idx, head, result, used_len, queue_event,
                  interrupt_signalled, panicked, warned >>
  /\ UNCHANGED devVars /\ UNCHANGED regVars
  /\ UNCHANGED ctlVars

\* after the loop: advance_used_ring_idx, prepare_kick, interrupt.trigger
\* (trigger_ok: the trigger succeeds; its failure is only logged)
FinishPass(trigger_ok) ==
  /\ pc = "advance"
  /\ used_idx' = QueueAdvanceUsedRingIdx(used)
  /\ num_added' = 0
  /\ interrupt_signalled' = IF QueuePrepareKick(num_added) /\ trigger_ok
                              THEN TRUE ELSE interrupt_signalled
  /\ pc' = "idle"
  /\ pass' = [pass EXCEPT !.state = "completed", !.advances = @ + 1]
  /\ head' = NoChain
  /\ result' = NoResult
  /\ used_len' = 0
  /\ UNCHANGED << avail, submitted, used, mark_failed, queue_event, panicked, warned >>
  /\ UNCHANGED devVars /\ UNCHANGED regVars
  /\ UNCHANGED ctlVars

\* ----------------------------------------------------------------- registry
\* VirtioRdma::new(id) as build calls it: a new allocation holding the id
NewDevice(config, serial) ==
  [ id |-> config.id, serial |-> serial, origin |-> "build", config |-> config ]

\* devices.iter().position(|dev| dev.id() == id): the first index whose
\* device has the id, 0 for None (indices start at 1)
Position(devs, id) ==
  IF \E i \in DOMAIN devs : devs[i].id = id
    THEN CHOOSE i \in DOMAIN devs :
           devs[i].id = id /\ \A j \in DOMAIN devs : (j < i) => (devs[j].id # id)
    ELSE 0

\* variant of the conversion that yields the default configuration
MutConfigFromDefault(device) == [ id |-> "" ]

\* From<&VirtioRdma> for RdmaDeviceConfig
ConfigFrom(device) == [ id |-> device.id ]

\* RdmaDeviceBuilder::configs
Configs == [ i \in DOMAIN devices |-> ConfigFrom(devices[i]) ]

\* variant of the body of build that always pushes the new device
MutBuildAlwaysPushes(op, config, new_ok) ==
  /\ created < MaxCreated
  /\ Len(devices) < MaxDevices
  /\ IF ~new_ok
       THEN /\ build_result' = [ op |-> op, config |-> config, tag |-> "CreateDevice", handle |-> NoDevice ]
            /\ UNCHANGED << devices, created >>
       ELSE LET device == NewDevice(config, created + 1)
            IN /\ created' = created + 1
               /\ devices' = Append(devices, device)
               /\ build_result' = [ op |-> op, config |-> config, tag |-> "Ok",
                                    handle |-> IF op = "build" THEN device ELSE NoDevice ]
  /\ UNCHANGED << request, rdma_count, rdma_fails >>
  /\ UNCHANGED rdmaVars

\* the body of build (new_ok: VirtioRdma::new succeeds): look the id up,
\* create the device, replace in place or push; op tells build, which
\* returns the handle, from insert, which drops it
BuildInto(op, config, new_ok) ==
  LET position == Position(devices, config.id)
  IN /\ created < MaxCreated
     /\ (position = 0) => (Len(devices) < MaxDevices)
     /\ IF ~new_ok
          THEN /\ build_result' = [ op |-> op, config |-> config, tag |-> "CreateDevice", handle |-> NoDevice ]
               /\ UNCHANGED << devices, created >>
          ELSE LET device == NewDevice(config, created + 1)
               IN /\ created' = created + 1
                  /\ devices' = IF position # 0
                                  THEN [ devices EXCEPT ![position] = device ]
                                  ELSE Append(devices, device)
                  /\ build_result' = [ op |-> op, config |-> config, tag |-> "Ok",
                                       handle |-> IF op = "build" THEN device ELSE NoDevice ]
     /\ UNCHANGED << request, rdma_count, rdma_fails >>
     /\ UNCHANGED rdmaVars

\* RdmaDeviceBuilder::build
Build(config, new_ok) == BuildInto("build", config, new_ok)

\* RdmaDeviceBuilder::insert
Insert(config, new_ok) == BuildInto("insert", config, new_ok)

\* RdmaDeviceBuilder::add_device with a device created elsewhere under id
AddDevice(id) ==
  /\ created < MaxCreated
  /\ Len(devices) < MaxDevices
  /\ created' = created + 1
  /\ devices' = Append(devices, [ id |-> id, serial |-> created + 1,
                                  origin |-> "add_device", config |-> NoConfig ])
  /\ build_result' = [ op |-> "add_device", config |-> NoConfig, tag |-> "Ok", handle |-> NoDevice ]
  /\ UNCHANGED << request, rdma_count, rdma_fails >>
  /\ UNCHANGED rdmaVars

\* ------------------------------------------------------------ parse_put_rdma
\* checked_id: rejects the empty id and an id with a character that is
\* neither alphanumeric nor '_'
CheckedId(id) ==
  IF id = "" THEN "EmptyID"
  ELSE IF id = "rdma-0" THEN "InvalidID"
  ELSE "Ok"

\* serde_json::from_slice::<RdmaDeviceConfig>: the bytes are a JSON object
\* whose only field is a string "id" (deny_unknown_fields; id is required)
FromSliceOk(body) == body.json /\ body.fields = { "id" } /\ body.id_is_string

FromSlice(body) == [ id |-> body.id ]

ParseErr(body, id_from_path, tag) ==
  [ path |-> id_from_path, body |-> body, tag |-> tag, action |-> NoAction ]

\* variant of parse_put_rdma that does not compare the two ids
MutParseSkipsIdComparison(body, id_from_path) ==
  /\ rdma_count < MaxRequests
  /\ rdma_count' = rdma_count + 1
  /\ IF ~id_from_path.present
       THEN /\ rdma_fails' = rdma_fails + 1
            /\ request' = ParseErr(body, id_from_path, "EmptyID")
       ELSE IF CheckedId(id_from_path.id) # "Ok"
       THEN /\ rdma_fails' = rdma_fails
            /\ request' = ParseErr(body, id_from_path, CheckedId(id_from_path.id))
       ELSE IF ~FromSliceOk(body)
       THEN /\ rdma_fails' = rdma_fails + 1
            /\ request' = ParseErr(body, id_from_path, "SerdeJson")
       ELSE /\ rdma_fails' = rdma_fails
            /\ request' = [ path |-> id_from_path, body |-> body, tag |-> "Ok",
                            action |-> [ kind |-> "InsertRdmaDevice", config |-> FromSlice(body) ] ]
  /\ UNCHANGED << devices, created, build_result >>
  /\ UNCHANGED rdmaVars

\* parse_put_rdma(body, id_from_path)
ParsePutRdma(body, id_from_path) ==
  /\ rdma_count < MaxRequests
  /\ rdma_count' = rdma_count + 1
  /\ IF ~id_from_path.present
       THEN /\ rdma_fails' = rdma_fails + 1
            /\ request' = ParseErr(body, id_from_path, "EmptyID")
       ELSE IF CheckedId(id_from_path.id) # "Ok"
       THEN /\ rdma_fails' = rdma_fails
            /\ request' = ParseErr(body, id_from_path, CheckedId(id_from_path.id))
       ELSE IF ~FromSliceOk(body)
       THEN /\ rdma_fails' = rdma_fails + 1
            /\ request' = ParseErr(body, id_from_path, "SerdeJson")
       ELSE IF id_from_path.id # FromSlice(body).id
       THEN /\ rdma_fails' = rdma_fails + 1
            /\ request' = ParseErr(body, id_from_path, "BadRequest")
       ELSE /\ rdma_fails' = rdma_fails
            /\ request' = [ path |-> id_from_path, body |-> body, tag |-> "Ok",
                            action |-> [ kind |-> "InsertRdmaDevice", config |-> FromSlice(body) ] ]
  /\ UNCHANGED << devices, created, build_result >>
  /\ UNCHANGED rdmaVars

\* the control plane carries the action of a parsed request to the
\* registry: VmmAction::InsertRdmaDevice(config) ends in insert(config)
InsertRdmaDevice(new_ok) ==
  /\ request.action.kind = "InsertRdmaDevice"
  /\ LET position == Position(devices, request.action.config.id)
         config == request.action.config
     IN /\ created < MaxCreated
        /\ (position = 0) => (Len(devices) < MaxDevices)
        /\ IF ~new_ok
             THEN /\ build_result' = [ op |-> "insert", config |-> config, tag |-> "CreateDevice", handle |-> NoDevice ]
                  /\ UNCHANGED << devices, created >>
             ELSE LET device == NewDevice(config, created + 1)
                  IN /\ created' = created + 1
                     /\ devices' = IF position # 0
                                     THEN [ devices EXCEPT ![position] = device ]
                                     ELSE Append(devices, device)
                     /\ build_result' = [ op |-> "insert", config |-> config, tag |-> "Ok", handle |-> NoDevice ]
  /\ request' = NoRequest
  /\ UNCHANGED << rdma_count, rdma_fails >>
  /\ UNCHANGED rdmaVars

\* ---------------------------------------------------------- specification
Sources == { PROCESS_ACTIVATE, PROCESS_RDMA_QUEUE, 2 }

QueueCounts == { 0, 1, 2 }

FeatureValues == { 0, 1 }

Next ==
  \/ \E mem_ok \in BOOLEAN, evt_ok \in BOOLEAN : Activate(mem_ok, evt_ok)
  \/ \E n \in QueueCounts : SetQueues(n)
  \/ \E v \in FeatureValues : SetAckedFeatures(v)
  \/ SubscriberInit
  \/ \E event_in \in BOOLEAN, source \in Sources : Process(event_in, source)
  \/ GuestSubmit
  \/ GuestNotify
  \/ \E pop_ok \in BOOLEAN : Pop(pop_ok)
  \/ ProcessChainStep
  \/ \E add_ok \in BOOLEAN : AddUsed(add_ok)
  \/ \E trigger_ok \in BOOLEAN : FinishPass(trigger_ok)

Spec == Init /\ [][Next]_vars

\* The drain pass on every chain of ChainSpace: the state right after the
\* first pop of a pass on an activated device whose activation event has
\* been handled, with the popped chain drawn from ChainSpace and zero or
\* one further chain available behind it.
InitChain ==
  /\ device_state = "Activated"
  /\ num_queues = RDMA_NUM_QUEUES
  /\ acked_features = 0
  /\ ever_acked = {}
  /\ activate_event = 0
  /\ queue_event = 0
  /\ registered = { PROCESS_RDMA_QUEUE }
  /\ subscribed = TRUE
  /\ avail \in { << >>, << 2 >> }
  /\ submitted = 1 + Len(avail)
  /\ used = << >>
  /\ used_idx = 0
  /\ num_added = 0
  /\ pc = "process"
  /\ \E c \in ChainSpace : head = [ id |-> 1, c |-> c ]
  /\ result = NoResult
  /\ used_len = 0
  /\ pass = [ state |-> "running", n |-> submitted, idx0 |-> 0, unpublished0 |-> 0,
              popped |-> 1, marked |-> 0, advances |-> 0, add_failed |-> FALSE ]
  /\ activate_calls = 1
  /\ activate_oks = 1
  /\ activate_signals = 1
  /\ activate_result = "Ok"
  /\ interrupt_signalled = FALSE
  /\ panicked = FALSE
  /\ mark_failed = {}
  /\ warned = "none"
  /\ InitCtl

NextChain ==
  \/ \E pop_ok \in BOOLEAN : Pop(pop_ok)
  \/ ProcessChainStep
  \/ \E add_ok \in BOOLEAN : AddUsed(add_ok)
  \/ \E trigger_ok \in BOOLEAN : FinishPass(trigger_ok)

SpecChain == InitChain /\ [][NextChain]_vars

\* The device under its reactor.  The reactor waits on the registered
\* sources (level-triggered) and calls process with EventSet::IN for one
\* whose EventFd is readable; nothing else calls process.
Ready(source) ==
  IF source = PROCESS_ACTIVATE THEN EventFdReadable(activate_event)
  ELSE EventFdReadable(queue_event)

ReactorDispatch == \E source \in registered : Ready(source) /\ Process(TRUE, source)

PassStep ==
  \/ \E pop_ok \in BOOLEAN : Pop(pop_ok)
  \/ ProcessChainStep
  \/ \E add_ok \in BOOLEAN : AddUsed(add_ok)
  \/ \E trigger_ok \in BOOLEAN : FinishPass(trigger_ok)

NextLive ==
  \/ \E mem_ok \in BOOLEAN, evt_ok \in BOOLEAN : Activate(mem_ok, evt_ok)
  \/ SubscriberInit
  \/ ReactorDispatch
  \/ GuestSubmit
  \/ GuestNotify
  \/ PassStep

\* the device is subscribed to the reactor when it is attached; the reactor
\* serves a source that stays ready; a callback runs to completion
SpecLive ==
  /\ Init /\ [][NextLive]_vars
  /\ WF_vars(SubscriberInit)
  /\ WF_vars(ReactorDispatch)
  /\ WF_vars(PassStep)

\* The control plane on its own: the registry operations, the request
\* parser and the delivery of a parsed request, on devices that are not
\* attached to a guest yet.
NextRegistry ==
  \/ \E config \in ConfigSpace, new_ok \in BOOLEAN : Build(config, new_ok)
  \/ \E config \in ConfigSpace, new_ok \in BOOLEAN : Insert(config, new_ok)
  \/ \E id \in Ids : AddDevice(id)
  \/ \E body \in Bodies, id_from_path \in Paths : ParsePutRdma(body, id_from_path)
  \/ \E new_ok \in BOOLEAN : InsertRdmaDevice(new_ok)

SpecRegistry == Init /\ [][NextRegistry]_vars

\* ------------------------------------------------------------------ claims
\* process_chain has acted on the chain in head
Processed == head.id # 0 /\ result.tag # "None"

\* the five structural conditions of a two-descriptor request chain
StructOk(c) ==
  /\ ~c.head_write_only
  /\ c.head_len >= 8
  /\ c.has_next
  /\ c.resp_write_only
  /\ c.resp_len >= 4

WellFormed(c) == StructOk(c) /\ c.req_mapped /\ c.resp_mapped

\* the used element add_used wrote last
LastUsed == used[Len(used)]

\* C1: for every well-formed two-descriptor chain whose two memory accesses
\* succeed, and every qp_id, the response buffer holds status OK (bytes
\* 00 00 00 00) exactly when the request's opcode bytes are 01 00 00 00
\* (CREATE_QP) and status ERR (01 00 00 00) for every other opcode; the
\* length handed to add_used is 4 and the used element written for the
\* chain carries 4.
C1_StatusByOpcode ==
  (Processed /\ WellFormed(head.c)) =>
    /\ result.wrote
    /\ (result.bytes = <<0,0,0,0>>) <=> (head.c.opcode = <<1,0,0,0>>)
    /\ (head.c.opcode # <<1,0,0,0>>) => (result.bytes = <<1,0,0,0>>)
    /\ used_len = 4
    /\ (pc = "pop" => LastUsed = [ id |-> head.id, len |-> 4 ])

C1_Witness ==
  /\ pc = "pop" /\ Processed /\ WellFormed(head.c)
  /\ head.c.opcode = <<1,0,0,0>> /\ head.c.qp_id = <<7,0,0,0>>
  /\ result.bytes = <<0,0,0,0>>
  /\ LastUsed = [ id |-> head.id, len |-> 4 ]

\* C2: for a chain that fails any of the five structural conditions the
\* response buffer is not written (it keeps its poison), the length handed
\* to add_used is 0 and the used element written for the chain carries 0;
\* the failure does not end the pass: the loop is left towards the advance
\* only when no chain is available any more or when add_used itself failed.
C2_MalformedChainZeroAndContinue ==
  (Processed /\ ~StructOk(head.c)) =>
    /\ ~result.wrote
    /\ result.bytes = Poison
    /\ result.tag # "Ok"
    /\ used_len = 0
    /\ (pc = "pop" => LastUsed = [ id |-> head.id, len |-> 0 ])
    /\ (pc = "advance" => (pass.add_failed \/ avail = << >>))

C2_Witness ==
  /\ pc = "pop" /\ Processed /\ ~StructOk(head.c)
  /\ LastUsed = [ id |-> head.id, len |-> 0 ]
  /\ result.bytes = Poison
  /\ avail # << >>

\* the error the five checks, taken in the order of the design, report for
\* a chain that fails one of them
FirstFailingCheck(c) ==
  IF c.head_write_only THEN "WriteOnlyDescriptor"
  ELSE IF c.head_len < 8 THEN "DescriptorTooShort"
  ELSE IF ~c.has_next THEN "DescriptorChainTooShort"
  ELSE IF ~c.resp_write_only THEN "ReadOnlyDescriptor"
  ELSE "DescriptorTooShort"

\* C3: the request record is read from guest memory only after all five
\* structural checks have passed: a chain that fails one of them is never
\* read, and the error reported for it is that of the first failing check.
C3_ReadOnlyAfterAllChecks ==
  (Processed /\ ~StructOk(head.c)) =>
    /\ ~result.read
    /\ result.tag = FirstFailingCheck(head.c)

\* the ids of the chains popped so far (ids are handed out in the order of
\* submission and the avail ring holds the ones not popped yet)
PoppedIds == 1 .. (submitted - Len(avail))

UsedEntriesOf(id) == { i \in DOMAIN used : used[i].id = id }

\* a popped chain whose pass is still working on it
InWork(id) == pc \in { "process", "add_used" } /\ head.id = id

\* C4 as stated: once the pass that popped it is over, every popped chain
\* has exactly one used entry.
C4_EveryPoppedChainMarkedOnce ==
  (pc = "idle") => \A id \in PoppedIds : Cardinality(UsedEntriesOf(id)) = 1

\* C4 as amended: every popped chain for which add_used succeeds has exactly
\* one used entry, carrying 4 when the response was written and 0 when it
\* was not; a popped chain has no used entry only when add_used failed for
\* it; no chain has two entries and no chain that was not popped has one.
C4_MarkedOnceUnlessAddUsedFails ==
  /\ \A id \in PoppedIds :
       Cardinality(UsedEntriesOf(id)) =
         IF id \in mark_failed \/ InWork(id) THEN 0 ELSE 1
  /\ \A i \in DOMAIN used : used[i].id \in PoppedIds /\ used[i].len \in { 0, 4 }
  /\ (pc = "pop" /\ Processed) =>
       LastUsed = [ id |-> head.id, len |-> IF result.wrote THEN 4 ELSE 0 ]

C4_Witness ==
  /\ pc = "idle" /\ pass.state = "completed"
  /\ mark_failed # {}
  /\ \E i \in DOMAIN used : used[i].len \in { 0, 4 } /\ used[i].id \notin mark_failed
  /\ used_idx = Len(used)

\* C5 as stated: a pass that started with n chains available has popped
\* all n and advanced the used-ring index by exactly n, in one advance.
C5_PassConsumesAllAndAdvancesByN ==
  (pc = "idle" /\ pass.state # "none") =>
    /\ pass.popped = pass.n
    /\ pass.advances = 1
    /\ used_idx = pass.idx0 + pass.n

\* C5 as amended: the used-ring index never moves between the chains of a
\* pass; a pass that leaves its loop advances it once, after the last chain
\* was marked, to the number of chains marked used so far (those of the
\* pass and those an earlier pass ended by a pop error left unpublished);
\* when no pop and no add_used failed, that pass has popped all n chains
\* and the index has moved by n plus the entries left unpublished before;
\* a pass ended by a pop error does not advance the index.
C5_BatchedAdvance ==
  /\ (pc \in { "pop", "process", "add_used", "advance" }) =>
       (used_idx = pass.idx0 /\ pass.advances = 0)
  /\ (pc = "idle" /\ pass.state = "completed") =>
       /\ pass.advances = 1
       /\ used_idx = pass.idx0 + pass.unpublished0 + pass.marked
       /\ ~pass.add_failed =>
            (pass.popped = pass.n /\ pass.marked = pass.n)
  /\ (pc = "idle" /\ pass.state = "pop_error") =>
       (pass.advances = 0 /\ used_idx = pass.idx0)

C5_Witness ==
  /\ pc = "idle" /\ pass.state = "completed" /\ ~pass.add_failed
  /\ pass.n = 2 /\ pass.popped = 2
  /\ used_idx = pass.idx0 + 2

\* C6: chains are popped, answered and added to the used ring in the order
\* the guest submitted them: the used ring lists ids in increasing order,
\* the chain in work was submitted after every chain already on the used
\* ring and before every chain still available, also after a chain that
\* failed validation.
C6_Fifo ==
  /\ \A i, j \in DOMAIN used : (i < j) => (used[i].id < used[j].id)
  /\ \A i, j \in DOMAIN avail : (i < j) => (avail[i] < avail[j])
  /\ \A i \in DOMAIN avail, j \in DOMAIN used : used[j].id < avail[i]
  /\ (head.id # 0) =>
       /\ \A i \in DOMAIN avail : head.id < avail[i]
       /\ \A j \in DOMAIN used : used[j].id <= head.id
       /\ (pc \in { "process", "add_used" }) => \A j \in DOMAIN used : used[j].id < head.id

C6_Witness ==
  /\ Len(used) >= 2
  /\ used[1].len = 0
  /\ used[1].id < used[2].id
  /\ pass.n >= 2 /\ pass.marked >= 2

\* C7: no queue traffic is processed while the device is Inactive: the
\* dispatcher never starts a drain pass, pops a chain, touches the used
\* ring or reaches the "Device is not initialized" panic before an activate
\* call has succeeded.
C7_NoQueueTrafficWhileInactive ==
  /\ ~panicked
  /\ (device_state = "Inactive" \/ activate_oks = 0) =>
       /\ pc = "idle"
       /\ pass.state = "none"
       /\ PoppedIds = {}
       /\ head = NoChain
       /\ used = << >>
       /\ used_idx = 0
       /\ ~interrupt_signalled

C7_Witness ==
  /\ device_state = "Inactive"
  /\ warned = "not_activated"
  /\ queue_event > 0
  /\ avail # << >>
  /\ subscribed

ActivateFailures == { "QueueMismatch", "QueueMemoryError", "EventFd" }

\* C8 as stated: a failed activate failed with a queue-count mismatch or an
\* event-signaling error, and the device is Inactive after it.
C8_FailsTwoWaysAndStaysInactive ==
  (activate_result \in ActivateFailures) =>
    /\ activate_result \in { "QueueMismatch", "EventFd" }
    /\ device_state = "Inactive"

\* C8 as amended: activate fails with a queue-count mismatch, a queue
\* memory error or an event-signaling error; a failed activate leaves the
\* activation state as it was (an Inactive device stays Inactive) and does
\* not signal the activation event; activating with a queue count other
\* than 1 fails with the mismatch.
C8_FailedActivateChangesNothing ==
  [][ (activate_calls' = activate_calls + 1) =>
        /\ activate_result' \in ActivateFailures \cup { "Ok" }
        /\ (activate_result' # "Ok") =>
             /\ device_state' = device_state
             /\ activate_event' = activate_event
             /\ activate_signals' = activate_signals
        /\ (num_queues # RDMA_NUM_QUEUES) =>
             (activate_result' = "QueueMismatch" /\ device_state' = "Inactive")
        /\ (activate_result' = "QueueMismatch") => (num_queues # RDMA_NUM_QUEUES)
    ]_vars

C8_Witness ==
  /\ activate_result = "QueueMismatch"
  /\ num_queues # RDMA_NUM_QUEUES
  /\ device_state = "Inactive"
  /\ activate_signals = 0
  /\ activate_event = 0

\* C9: a device that is Activated is Activated after every step.
C9_ActivatedNeverReverts ==
  [][ (device_state = "Activated") => (device_state' = "Activated") ]_vars

C9_Witness ==
  /\ device_state = "Activated"
  /\ activate_result \in ActivateFailures
  /\ pass.state = "completed"
  /\ acked_features # 0

\* C10 as stated: the activation event source is signalled at most once
\* over the life of a device, and exactly once on an Activated device.
C10_SignalledExactlyOnce ==
  /\ activate_signals <= 1
  /\ (device_state = "Activated") => (activate_signals = 1)

\* C10 as amended: every successful activate call signals the activation
\* event source exactly once and a failed one does not signal it: the
\* number of signals equals the number of successful activate calls, and is
\* at least 1 exactly when the device is Activated.
C10_OneSignalPerSuccessfulActivate ==
  /\ activate_signals = activate_oks
  /\ (device_state = "Activated") <=> (activate_signals >= 1)

C10_Witness ==
  /\ device_state = "Activated"
  /\ activate_calls = 2
  /\ activate_oks = 1
  /\ activate_signals = 1

\* the registrations the dispatcher may hold between two callbacks
RegistrationStates == { {}, { PROCESS_ACTIVATE }, { PROCESS_RDMA_QUEUE } }

DropWarnings == { "unknown_event_set", "not_activated", "unknown_source" }

\* C12: a call of process with an event that lacks the IN bit, or on a
\* device that is not activated, or with a tag that is neither the
\* activation tag nor the queue tag, ends in one of the three warnings; a
\* call that ends in a warning changes nothing else: no drain pass starts,
\* neither event counter is read, the registration, the device state and
\* the queue are as before.  An event is routed to a handler, which clears
\* the warning, only on an activated device.
C12_DroppedEventHasNoEffect ==
  [][ /\ (warned' \notin DropWarnings) =>
           \A event_in \in BOOLEAN, source \in Sources :
             (~event_in \/ ~is_activated
                \/ source \notin { PROCESS_ACTIVATE, PROCESS_RDMA_QUEUE }) =>
               ~Process(event_in, source)
      /\ (warned' \in DropWarnings /\ warned' # warned) =>
           /\ pc' = "idle" /\ pass' = pass
           /\ activate_event' = activate_event /\ queue_event' = queue_event
           /\ registered' = registered /\ subscribed' = subscribed
           /\ device_state' = device_state
           /\ UNCHANGED devVars /\ UNCHANGED queueVars /\ UNCHANGED passVars
           /\ ~panicked'
      /\ (warned' = "none" /\ warned # "none") => is_activated
    ]_vars

C12_Witness ==
  /\ warned = "unknown_event_set"
  /\ device_state = "Activated"
  /\ registered = { PROCESS_RDMA_QUEUE }
  /\ queue_event > 0
  /\ avail # << >>
  /\ pc = "idle" /\ pass.state = "none"

\* the indices of the registry entries that hold the id
IndicesOf(devs, id) == { i \in DOMAIN devs : devs[i].id = id }

\* C13: a successful build(config) whose id is present replaces the entry
\* at the position of that id (the first one holding it), by a device
\* created in the call, and leaves the length and every other entry as they
\* were; a successful build(config) whose id is absent appends one entry
\* and leaves the earlier entries as they were; either way the handle
\* returned is the entry the registry now holds for the id, it carries the
\* id of config, and it is none of the devices held before.
C13_BuildReplacesInPlaceOrAppends ==
  [][ \A config \in ConfigSpace :
        Build(config, TRUE) =>
          LET present == IndicesOf(devices, config.id)
              handle == build_result'.handle
          IN /\ build_result'.tag = "Ok"
             /\ handle.id = config.id
             /\ \A i \in DOMAIN devices : devices[i] # handle
             /\ (present # {}) =>
                  \E p \in present :
                    /\ \A q \in present : p <= q
                    /\ Len(devices') = Len(devices)
                    /\ devices'[p] = handle
                    /\ \A i \in DOMAIN devices : (i # p) => (devices'[i] = devices[i])
             /\ (present = {}) =>
                  /\ Len(devices') = Len(devices) + 1
                  /\ devices'[Len(devices')] = handle
                  /\ \A i \in DOMAIN devices : devices'[i] = devices[i]
             /\ devices'[Position(devices', config.id)] = handle
    ]_vars

C13_Witness ==
  /\ build_result.op = "build" /\ build_result.tag = "Ok"
  /\ Len(devices) = 2
  /\ devices[1] = build_result.handle
  /\ devices[1].serial > devices[2].serial
  /\ devices[1].id # devices[2].id

\* C14: no two entries of the registry hold the same id.
C14_IdsUnique ==
  \A i, j \in DOMAIN devices : (i # j) => (devices[i].id # devices[j].id)

\* every entry of the registry was created by build or insert
AllBuilt == \A i \in DOMAIN devices : devices[i].origin = "build"

\* C15: configs() has one configuration per entry of the registry, in the
\* order of the registry; the configuration of an entry that build or
\* insert created is the configuration that call was given; and a registry
\* holding only such entries yields no id twice.
C15_ConfigsRoundTrip ==
  /\ DOMAIN Configs = DOMAIN devices
  /\ \A i \in DOMAIN devices :
       (devices[i].origin = "build") => (Configs[i] = devices[i].config)
  /\ AllBuilt =>
       \A i, j \in DOMAIN devices : (i # j) => (Configs[i].id # Configs[j].id)

C15_Witness ==
  /\ Len(devices) = 2 /\ AllBuilt
  /\ build_result = [ op |-> "insert", config |-> [ id |-> "bar" ], tag |-> "Ok", handle |-> NoDevice ]
  /\ Configs = << [ id |-> "bar" ], [ id |-> "rdma0" ] >>
  /\ devices[1].serial = 3

\* the errors parse_put_rdma returns
ParseErrors == { "EmptyID", "InvalidID", "SerdeJson", "BadRequest" }

\* the request holds a path id, a body that is a configuration with exactly
\* the field id, and the two ids are equal
RequestMatches(r) ==
  /\ r.path.present
  /\ r.body.json /\ r.body.fields = { "id" } /\ r.body.id_is_string
  /\ r.path.id = r.body.id

\* C16: parse_put_rdma yields the insert action only for a request with a
\* path id and a body that is a configuration with exactly the field id
\* equal to the path id, and the action carries that configuration; every
\* other request yields an error and no action; the call (the step that
\* counts a request) leaves the registry as it was, and a request is
\* consumed by the registry only if it yielded the action, as an insert of
\* its configuration.
C16_InsertOnlyForMatchingRequest ==
  [][ /\ (request'.tag # "None") =>
           /\ (request'.tag = "Ok") <=> (request'.action.kind = "InsertRdmaDevice")
           /\ (request'.tag = "Ok") =>
                /\ RequestMatches(request')
                /\ request'.action.config = [ id |-> request'.path.id ]
           /\ (~RequestMatches(request')) =>
                (request'.tag \in ParseErrors /\ request'.action = NoAction)
      /\ (rdma_count' # rdma_count) =>
           /\ request'.tag # "None"
           /\ devices' = devices /\ created' = created /\ build_result' = build_result
      /\ (request' # request /\ rdma_count' = rdma_count) =>
           /\ request.tag = "Ok" /\ RequestMatches(request)
           /\ build_result'.op = "insert"
           /\ build_result'.config = [ id |-> request.path.id ]
    ]_vars

C16_Witness ==
  /\ request.tag = "BadRequest"
  /\ request.path.id = "rdma0" /\ request.body.id = "bar"
  /\ rdma_count = 2 /\ rdma_fails = 1
  /\ Len(devices) = 1 /\ devices[1].id = "rdma0"
  /\ build_result.op = "insert"

\* a chain that passes the five structural checks and whose request or
\* response buffer is not mapped
MemoryFault(c) == StructOk(c) /\ (~c.req_mapped \/ ~c.resp_mapped)

\* C17 as stated: a chain that meets a guest-memory error is marked used
\* with 0, and every pass that has ended, whatever error it met, has
\* advanced the used-ring index once, so that every chain marked used is
\* visible to the guest.
C17_EveryErrorIsLocalToItsChain ==
  /\ (Processed /\ MemoryFault(head.c)) => (used_len = 0)
  /\ (pc = "idle" /\ pass.state # "none") =>
       (pass.advances = 1 /\ used_idx = Len(used))

\* C17 as amended: a chain that meets a guest-memory error gets no response
\* and is handed to add_used with 0, and the loop goes on to the next pop;
\* a pass that leaves its loop, also by the break after a failed add_used,
\* advances the index once and makes every chain marked used so far
\* visible; a pass that meets a queue-ring error in pop ends at once: it
\* does not advance the index, and what it had marked used stays invisible
\* to the guest until a later pass advances.
C17_MemoryErrorLocalPopErrorEndsPass ==
  /\ (Processed /\ MemoryFault(head.c)) =>
       /\ result.tag = "GuestMemory"
       /\ ~result.wrote /\ result.bytes = Poison
       /\ used_len = 0
       /\ (pc = "pop" => LastUsed = [ id |-> head.id, len |-> 0 ])
       /\ (pc = "advance" => (pass.add_failed \/ avail = << >>))
  /\ (pc = "idle" /\ pass.state = "completed") =>
       (pass.advances = 1 /\ used_idx = Len(used))
  /\ (pc = "idle" /\ pass.state = "pop_error") =>
       /\ pass.advances = 0
       /\ used_idx = pass.idx0
       /\ Len(used) = used_idx + pass.unpublished0 + pass.marked

C17_Witness ==
  /\ pc = "idle" /\ pass.state = "pop_error"
  /\ pass.marked = 1
  /\ used = << [ id |-> 1, len |-> 0 ] >>
  /\ used_idx = 0
  /\ avail # << >>

\* C18: the step in which add_used fails leaves the chains still available
\* where they are, the device Activated and the registration as it is, and
\* the pass then ends through the advance; whatever has failed before, a
\* queue notification handled on the Activated device starts a new pass
\* over all the chains available at that moment.
C18_AddUsedFailureEndsOnlyThePass ==
  [][ /\ (pc = "add_used" /\ pc' = "advance") =>
           /\ pass'.add_failed
           /\ avail' = avail
           /\ device_state' = "Activated"
           /\ registered' = registered
      /\ (pc = "advance" /\ pass.add_failed) =>
           /\ pc' = "idle" /\ pass'.state = "completed"
           /\ avail' = avail
           /\ device_state' = "Activated"
           /\ registered' = registered
           /\ ~panicked'
      /\ (Process(TRUE, PROCESS_RDMA_QUEUE) /\ is_activated /\ EventFdReadable(queue_event)) =>
           /\ pc' = "pop"
           /\ pass'.state = "running" /\ pass'.n = Len(avail) /\ pass'.popped = 0
           /\ avail' = avail
           /\ queue_event' = 0
    ]_vars

C18_Witness ==
  /\ pc = "idle"
  /\ pass.state = "completed" /\ pass.add_failed
  /\ pass.n = 2 /\ pass.popped = 1
  /\ mark_failed = { 1 }
  /\ avail = << 2 >>
  /\ device_state = "Activated" /\ registered = { PROCESS_RDMA_QUEUE }
  /\ EventFdReadable(queue_event)

\* a drain pass has just been started by the notification
PassStarted == pc = "pop" /\ pass.state = "running" /\ pass.popped = 0 /\ queue_event = 0

C20_AckedFeaturesMonotonic == ever_acked \subseteq Bits(acked_features)

\* C20 as amended: set_acked_features stores the value it is given, in
\* whatever state the device is and whatever was acknowledged before, so a
\* bit absent from the value is cleared; no other operation changes
\* acked_features, and no bit is set that no call was given.
C20_SetterOverwrites ==
  [][ /\ \A v \in FeatureValues :
           SetAckedFeatures(v) => (acked_features' = v /\ Bits(acked_features') = Bits(v))
      /\ (acked_features' # acked_features) =>
           \E v \in FeatureValues : SetAckedFeatures(v)
      /\ Bits(acked_features') \subseteq ever_acked'
    ]_vars

C20_Witness ==
  /\ ever_acked = { 0 }
  /\ acked_features = 0
  /\ device_state = "Activated"

====
